---------------------------- MODULE Spec2Model ----------------------------
(***************************************************************************)
(* Dist2CycleLayer (topomodelx/nn/simplicial/dist2cycle_layer.py) and the  *)
(* DHGCN model exercised by test/nn/hypergraph/test_dhgcn.py.              *)
(*                                                                         *)
(* A tensor is a non-empty sequence of equally long non-empty rows of      *)
(* integers (a dense 2-D tensor); its shape is <<rows, columns>>.  A       *)
(* parameter is a record of its data and its dtype.  A call's outcome is   *)
(* a record: a returned tensor, or the exception that reached the caller   *)
(* with the operation that raised it.                                      *)
(***************************************************************************)
EXTENDS Integers, Sequences, FiniteSets

\* Bounds of the model.
MaxRows == 3
MaxChannels == 2
MaxNodes == 8
MaxChannelsNode == 8
MaxLayers == 2

\* Values the tensors of the model are built from.
AdjVals == {0, 1}
LinvVals == {-1, 2}
FeatVals == {0, 1}
WeightVals == {-1, 1}
BiasVals == {0, 1}

VARIABLES
    channels,     \* self.channels
    weight,       \* self.fc_neigh.weight: data of shape (1, channels), dtype
    bias,         \* self.fc_neigh.bias: data of shape (1,), dtype
    x_e,          \* the caller's edge-feature tensor
    Linv,         \* the caller's Laplacian pseudo-inverse tensor
    adjacency,    \* the caller's adjacency tensor
    rst,          \* outcome of the operation that ran last
    op,           \* the operation that ran last
    probe,        \* an earlier forward call kept for comparison
    dhgcn         \* the DHGCN model of the test and its call in progress

vars == <<channels, weight, bias, x_e, Linv, adjacency, rst, op, probe, dhgcn>>

---------------------------------------------------------------------------
\* Tensors.

Max(a, b) == IF a >= b THEN a ELSE b

Rows(t) == Len(t)

Cols(t) == Len(t[1])

Shape(t) == <<Rows(t), Cols(t)>>

Full(r, c, v) == [i \in 1..r |-> [j \in 1..c |-> v]]

\* The r x c tensors whose entries alternate between two values of V.
Alternating(r, c, V) ==
    {[i \in 1..r |-> [j \in 1..c |-> IF (i + j) % 2 = 0 THEN v ELSE u]] :
         v \in V, u \in V}

\* The r x c tensors whose rows are constant and alternate between two
\* values of V.
RowStriped(r, c, V) ==
    {[i \in 1..r |-> [j \in 1..c |-> IF i % 2 = 1 THEN v ELSE u]] :
         v \in V, u \in V}

ShapesOf(R, C) == (1..R) \X (1..C)

AdjTensors ==
    UNION {Alternating(s[1], s[2], AdjVals) \cup RowStriped(s[1], s[2], AdjVals) :
               s \in ShapesOf(MaxRows, MaxChannels)}

LinvTensors == UNION {Alternating(s[1], s[2], LinvVals) : s \in ShapesOf(MaxRows, MaxChannels)}

FeatTensors == {Full(1, 1, v) : v \in FeatVals} \cup {Full(MaxRows, MaxChannels, 1)}

\* What a call hands back to its caller.
NoResult == [status |-> "none", at |-> "", value |-> <<>>]

Return(t) == [status |-> "ok", at |-> "", value |-> t]

Raise(where) == [status |-> "error", at |-> where, value |-> <<>>]

---------------------------------------------------------------------------
\* torch's elementwise product of two dense 2-D tensors, with broadcasting:
\* a dimension of size 1 is expanded to the other operand's size.

broadcastable(s, t) == \A d \in 1..2 : s[d] = t[d] \/ s[d] = 1 \/ t[d] = 1

expand(t, i, j) == t[IF Rows(t) = 1 THEN 1 ELSE i][IF Cols(t) = 1 THEN 1 ELSE j]

mul(a, b) ==
    [i \in 1..Max(Rows(a), Rows(b)) |->
        [j \in 1..Max(Cols(a), Cols(b)) |-> expand(a, i, j) * expand(b, i, j)]]

\* Aggregation(aggr_func="sum", update_func="relu"): the tensors of the
\* list are stacked and summed entry by entry, then rectified.
add(a, b) == [i \in 1..Rows(a) |-> [j \in 1..Cols(a) |-> a[i][j] + b[i][j]]]

RECURSIVE stack_sum(_, _)
stack_sum(xs, n) == IF n = 1 THEN xs[1] ELSE add(stack_sum(xs, n - 1), xs[n])

relu(t) == [i \in 1..Rows(t) |-> [j \in 1..Cols(t) |-> Max(0, t[i][j])]]

aggr_on_edges(xs) == relu(stack_sum(xs, Len(xs)))

\* nn.Linear(channels, 1, bias=True): x W^T + b.
RECURSIVE dot(_, _, _)
dot(x, w, n) == IF n = 0 THEN 0 ELSE dot(x, w, n - 1) + x[n] * w[n]

\* As if the projection were nn.Linear(channels, channels).
fc_neigh_wide(x) ==
    [i \in 1..Rows(x) |->
        [k \in 1..channels |->
            dot(x[i], weight.data[1], Cols(x)) + bias.data[1]]]

fc_neigh(x) ==
    [i \in 1..Rows(x) |->
        [k \in 1..Rows(weight.data) |->
            dot(x[i], weight.data[k], Cols(x))
                + bias.data[IF Len(bias.data) = 1 THEN 1 ELSE k]]]

\* F.linear raises unless the input's trailing size is the weight's.
project(m) ==
    IF Cols(m) # Cols(weight.data) THEN Raise("fc_neigh") ELSE Return(fc_neigh(m))

\* As if the aggregation were skipped and the product projected as it is.
edge_messages_raw(L, A) == mul(A, L)

\* Lines 64-65: the tensor handed to the linear projection.
edge_messages(L, A) == aggr_on_edges(<<mul(A, L)>>)

\* As if the rectifier were applied after the projection, not before it.
forward_relu_last(xe, L, A) ==
    IF ~broadcastable(Shape(A), Shape(L)) THEN Raise("mul")
    ELSE IF Cols(mul(A, L)) # Cols(weight.data) THEN Raise("fc_neigh")
    ELSE Return(relu(fc_neigh(mul(A, L))))

\* As if the layer kept its last output and added each new one to it.
forward_buffered(xe, L, A) ==
    IF ~broadcastable(Shape(A), Shape(L)) THEN Raise("mul")
    ELSE IF project(edge_messages(L, A)).status = "ok" /\ op = "forward"
             /\ rst.status = "ok"
             /\ Shape(rst.value) = Shape(project(edge_messages(L, A)).value)
    THEN Return(add(rst.value, project(edge_messages(L, A)).value))
    ELSE project(edge_messages(L, A))

\* As if the features were multiplied into the product, not rebound.
forward_features(xe, L, A) ==
    IF ~broadcastable(Shape(A), Shape(L)) THEN Raise("mul")
    ELSE IF ~broadcastable(Shape(mul(A, L)), Shape(xe)) THEN Raise("mul")
    ELSE project(aggr_on_edges(<<mul(mul(A, L), xe)>>))

\* As if a failed product were caught and zeros returned in its place.
forward_recovers(xe, L, A) ==
    IF ~broadcastable(Shape(A), Shape(L)) THEN Return(Full(Rows(A), 1, 0))
    ELSE project(edge_messages(L, A))

\* Dist2CycleLayer.forward: the argument xe is rebound before it is read.
forward(xe, L, A) ==
    IF ~broadcastable(Shape(A), Shape(L)) THEN Raise("mul")
    ELSE project(edge_messages(L, A))

---------------------------------------------------------------------------
\* Parameters.

Param(d) == [data |-> d, dtype |-> "float32"]

WeightData(c) == Alternating(1, c, WeightVals)

BiasData == {<<b>> : b \in BiasVals}

NoProbe == [set |-> FALSE, args |-> <<>>, rst |-> NoResult, between |-> FALSE]

NoModel ==
    [channels_node |-> 0, n_layers |-> 0, x_0 |-> <<>>, h |-> <<>>,
     layer |-> 0, pc |-> "none", y |-> NoResult]

\* Dist2CycleLayer.__init__
Init ==
    /\ channels \in 1..MaxChannels
    /\ weight \in {Param(d) : d \in WeightData(channels)}
    /\ bias \in {Param(d) : d \in BiasData}
    /\ x_e = Full(1, 1, 0)
    /\ Linv = Full(1, 1, 0)
    /\ adjacency = Full(1, 1, 0)
    /\ rst = NoResult
    /\ op = "init"
    /\ probe = NoProbe
    /\ dhgcn = NoModel

\* The caller replaces one of the tensors it will pass to the next call.
SetFeatures(Xs) ==
    /\ x_e' \in Xs
    /\ rst' = NoResult
    /\ op' = "inputs"
    /\ UNCHANGED <<channels, weight, bias, Linv, adjacency, probe, dhgcn>>

SetLinv(Ls) ==
    /\ Linv' \in Ls
    /\ rst' = NoResult
    /\ op' = "inputs"
    /\ UNCHANGED <<channels, weight, bias, x_e, adjacency, probe, dhgcn>>

SetAdjacency(As) ==
    /\ adjacency' \in As
    /\ rst' = NoResult
    /\ op' = "inputs"
    /\ UNCHANGED <<channels, weight, bias, x_e, Linv, probe, dhgcn>>

\* As if the product were written into the caller's adjacency tensor.
ForwardInPlace ==
    /\ rst' = forward(x_e, Linv, adjacency)
    /\ op' = "forward"
    /\ adjacency' = IF Shape(adjacency) = Shape(Linv)
                    THEN mul(adjacency, Linv) ELSE adjacency
    /\ UNCHANGED <<channels, weight, bias, x_e, Linv, probe, dhgcn>>

\* layer.forward(x_e, Linv, adjacency) on the caller's tensors.
Forward ==
    /\ rst' = forward(x_e, Linv, adjacency)
    /\ op' = "forward"
    /\ probe' = IF probe.set /\ probe.args # <<x_e, Linv, adjacency>>
                THEN [probe EXCEPT !.between = TRUE] ELSE probe
    /\ UNCHANGED <<channels, weight, bias, x_e, Linv, adjacency, dhgcn>>

\* As if the weight were created anew with its two sizes exchanged.
ResetParametersRecreate ==
    /\ \E d \in WeightData(channels) :
           weight' = [weight EXCEPT !.data = [k \in 1..channels |-> <<d[1][k]>>]]
    /\ \E d \in BiasData : bias' = [bias EXCEPT !.data = d]
    /\ rst' = NoResult
    /\ op' = "reset_parameters"
    /\ probe' = NoProbe
    /\ UNCHANGED <<channels, x_e, Linv, adjacency, dhgcn>>

\* Dist2CycleLayer.reset_parameters: both initialisers write in place.
ResetParameters ==
    /\ \E d \in WeightData(Cols(weight.data)) : weight' = [weight EXCEPT !.data = d]
    /\ \E d \in BiasData : bias' = [bias EXCEPT !.data = d]
    /\ rst' = NoResult
    /\ op' = "reset_parameters"
    /\ probe' = NoProbe
    /\ UNCHANGED <<channels, x_e, Linv, adjacency, dhgcn>>

\* The caller keeps the arguments and the outcome of the call just made.
Remember ==
    /\ op = "forward"
    /\ ~probe.set
    /\ probe' = [set |-> TRUE, args |-> <<x_e, Linv, adjacency>>, rst |-> rst,
                 between |-> FALSE]
    /\ UNCHANGED <<channels, weight, bias, x_e, Linv, adjacency, rst, op, dhgcn>>

Next ==
    \/ SetFeatures(FeatTensors)
    \/ SetLinv(LinvTensors)
    \/ SetAdjacency(AdjTensors)
    \/ Forward
    \/ ResetParameters

Spec == Init /\ [][Next]_vars

---------------------------------------------------------------------------
\* Repeated calls: the caller chooses among a few tensors and compares the
\* outcome of a call with that of an earlier call it remembered.

DetFeatTensors == {Full(1, 1, v) : v \in FeatVals}

DetLinvTensors == Alternating(MaxRows, MaxChannels, LinvVals) \cup {Full(MaxRows, 1, 2)}

DetAdjTensors ==
    {Full(MaxRows, c, 1) : c \in {1, MaxChannels}} \cup {Full(1, MaxChannels, 1)}

NextDet ==
    \/ SetFeatures(DetFeatTensors)
    \/ SetLinv(DetLinvTensors)
    \/ SetAdjacency(DetAdjTensors)
    \/ Forward
    \/ ResetParameters
    \/ Remember

SpecDet == Init /\ [][NextDet]_vars

---------------------------------------------------------------------------
\* DHGCN(channels_node, n_layers) called on node features x_0.  Tensors are
\* followed by their shapes only: a shape is the sequence of the sizes.

\* One hypergraph-convolution layer: node features in, node features out.
dhgcn_layer(shape, channels_node) ==
    IF Len(shape) = 2 /\ shape[2] = channels_node
    THEN Return(<<shape[1], channels_node>>)
    ELSE Raise("layer")

\* As if the nodes were pooled and the channels kept.
dhgcn_readout_channels(shape) == Return(<<shape[2]>>)

\* The final reduction of the node features to one value.
dhgcn_readout(shape) == Return(<<>>)

\* test_forward: model = DHGCN(channels_node, n_layers); x_0 = torch.rand(n, c)
InitDHGCN ==
    /\ channels = 1
    /\ weight = Param(Full(1, 1, 1))
    /\ bias = Param(<<0>>)
    /\ x_e = Full(1, 1, 0)
    /\ Linv = Full(1, 1, 0)
    /\ adjacency = Full(1, 1, 0)
    /\ rst = NoResult
    /\ op = "init"
    /\ probe = NoProbe
    /\ \E c \in 1..MaxChannelsNode, l \in 1..MaxLayers,
          n \in 1..MaxNodes, k \in 1..MaxChannelsNode :
           dhgcn = [channels_node |-> c, n_layers |-> l, x_0 |-> <<n, k>>,
                    h |-> <<n, k>>, layer |-> 0, pc |-> "call", y |-> NoResult]

\* y = model(x_0): the next layer of the stack is applied.
DHGCNLayer ==
    /\ dhgcn.pc = "call"
    /\ dhgcn.layer < dhgcn.n_layers
    /\ LET out == dhgcn_layer(dhgcn.h, dhgcn.channels_node)
       IN dhgcn' = IF out.status = "ok"
                   THEN [dhgcn EXCEPT !.h = out.value, !.layer = @ + 1]
                   ELSE [dhgcn EXCEPT !.pc = "done", !.y = out]
    /\ UNCHANGED <<channels, weight, bias, x_e, Linv, adjacency, rst, op, probe>>

\* y = model(x_0): every layer is applied, the features are reduced.
DHGCNReadout ==
    /\ dhgcn.pc = "call"
    /\ dhgcn.layer = dhgcn.n_layers
    /\ dhgcn' = [dhgcn EXCEPT !.pc = "done", !.y = dhgcn_readout(dhgcn.h)]
    /\ UNCHANGED <<channels, weight, bias, x_e, Linv, adjacency, rst, op, probe>>

NextDHGCN == DHGCNLayer \/ DHGCNReadout

SpecDHGCN == InitDHGCN /\ [][NextDHGCN]_vars

---------------------------------------------------------------------------
\* Properties.

\* The caller's adjacency and Linv have one shape, (n, channels).
SameShape == Shape(adjacency) = Shape(Linv) /\ Cols(adjacency) = channels

C3_Deterministic ==
    (op = "forward" /\ probe.set /\ probe.args = <<x_e, Linv, adjacency>>) =>
        rst = probe.rst

C3_Witness ==
    /\ op = "forward" /\ probe.set /\ probe.args = <<x_e, Linv, adjacency>>
    /\ probe.between /\ rst.status = "ok"

\* C4: a forward call leaves the layer's weight, bias and channels and the
\* caller's x_e, Linv and adjacency as they were.
C4_ForwardFrame ==
    [][op' = "forward" =>
          /\ weight' = weight /\ bias' = bias /\ channels' = channels
          /\ x_e' = x_e /\ Linv' = Linv /\ adjacency' = adjacency]_vars

C4_Witness ==
    /\ op = "forward" /\ rst.status = "ok"
    /\ \E i \in 1..Rows(adjacency), j \in 1..Cols(adjacency) :
           mul(adjacency, Linv)[i][j] # adjacency[i][j]

C6_Original ==
    (op = "forward" /\ Shape(adjacency) # Shape(Linv)) => rst = Raise("mul")

\* C6: whenever the shapes of adjacency and Linv cannot be broadcast (a size
\* differs and neither is 1), forward fails at the product and returns nothing.
C6_MismatchFails ==
    (op = "forward" /\ ~broadcastable(Shape(adjacency), Shape(Linv))) =>
        rst = Raise("mul")

C6_Witness ==
    /\ op = "forward" /\ ~broadcastable(Shape(adjacency), Shape(Linv))
    /\ rst.status = "error" /\ Rows(adjacency) # Rows(Linv)

\* C7: in every state the weight has shape (1, channels), the bias has shape
\* (1,), and both have the dtype they were created with.
C7_ParameterShapes ==
    /\ Shape(weight.data) = <<1, channels>>
    /\ Len(bias.data) = 1
    /\ weight.dtype = "float32" /\ bias.dtype = "float32"

C7_Witness ==
    /\ op = "reset_parameters" /\ channels = MaxChannels
    /\ weight.data = <<[j \in 1..MaxChannels |-> IF j % 2 = 0 THEN 1 ELSE -1]>>

\* C8 as claimed: forward called with features of shape (n, channels), and
\* adjacency and Linv of that shape, returns a tensor of shape (n, channels).
C8_DocstringShape ==
    (op = "forward" /\ SameShape /\ Shape(x_e) = Shape(adjacency)) =>
        rst.status = "ok" /\ Shape(rst.value) = <<Rows(x_e), channels>>

\* The reference value of C9: sum over j <= n of w[j] * max(0, a[j] * l[j]).
RECURSIVE RefSum(_, _, _, _)
RefSum(w, a, l, n) ==
    IF n = 0 THEN 0 ELSE RefSum(w, a, l, n - 1) + w[n] * Max(0, a[n] * l[n])

Rectified(m, t) ==
    /\ Shape(m) = Shape(t)
    /\ \A i \in 1..Rows(t), j \in 1..Cols(t) : m[i][j] = Max(0, t[i][j]) /\ m[i][j] >= 0

=============================================================================
